---- MODULE Spec2Model ----
(***************************************************************************)
(* Model of src/devtools/common/metrics/stability/util/grpc_error_util.py: *)
(* to_exception_detail(e) scans the trailing metadata of a failed call for *)
(* the entry keyed _EXCEPTION_KEY, parses its value as an RpcErrorPayload, *)
(* zlib-decompresses the embedded blob and parses it as an ExceptionDetail.*)
(*                                                                         *)
(* Byte strings are sequences of naturals in 0..255.  Every invocation of  *)
(* to_exception_detail is a process with its own frame (pc, loop index,    *)
(* error_info, decompressed buffer); the handles live in a heap that the   *)
(* invocations only read.                                                  *)
(***************************************************************************)
EXTENDS Integers, Sequences, FiniteSets, TLC

\* ------------------------------------------------------------------------
\* Bounds
\* ------------------------------------------------------------------------
\* longest trailing-metadata sequence of a handle, one invocation at a time
MaxLen == 3
\* longest trailing-metadata sequence of a handle, two concurrent invocations
MaxLenConc == 2

\* ------------------------------------------------------------------------
\* Constants of the program
\* ------------------------------------------------------------------------
_EXCEPTION_KEY == "__crpc_mse_300713958-bin"

\* ------------------------------------------------------------------------
\* Protocol-buffer wire format, as the generated FromString decodes it:
\* a message is a sequence of fields; a field is a tag varint
\* (field number * 8 + wire type) followed, for wire type 0, by a varint
\* and, for wire type 2, by a length varint and that many bytes.  The
\* fixed-width and group wire types do not occur in the two schemas and
\* wire types 6 and 7 do not exist; they are a decode error here.
\* ------------------------------------------------------------------------
RECURSIVE VarintEnd(_, _)
\* index of the last byte of the varint starting at b[i]; 0 when truncated
VarintEnd(b, i) ==
  IF i > Len(b) THEN 0
  ELSE IF b[i] < 128 THEN i
  ELSE VarintEnd(b, i + 1)

RECURSIVE VarintValue(_, _, _)
\* value of the little-endian base-128 varint b[i..end]
VarintValue(b, i, end) ==
  IF i = end THEN b[i]
  ELSE (b[i] % 128) + 128 * VarintValue(b, i + 1, end)

DecodeFailed == [ok |-> FALSE, fields |-> <<>>]

RECURSIVE ParseFields(_)
\* the fields of a serialized message, in wire order, or a decode failure
ParseFields(b) ==
  IF b = <<>> THEN [ok |-> TRUE, fields |-> <<>>]
  ELSE
    LET tagEnd == VarintEnd(b, 1) IN
    IF tagEnd = 0 THEN DecodeFailed
    ELSE
      LET tag == VarintValue(b, 1, tagEnd)
          num == tag \div 8
          wt  == tag % 8
          valEnd == VarintEnd(b, tagEnd + 1)
      IN
      IF num = 0 \/ wt \notin {0, 2} \/ valEnd = 0 THEN DecodeFailed
      ELSE
        LET val == VarintValue(b, tagEnd + 1, valEnd)
            last == IF wt = 2 THEN valEnd + val ELSE valEnd
        IN
        IF last > Len(b) THEN DecodeFailed
        ELSE
          LET rest == ParseFields(SubSeq(b, last + 1, Len(b))) IN
          IF ~rest.ok THEN DecodeFailed
          ELSE [ok |-> TRUE,
                fields |-> <<[num |-> num, wt |-> wt,
                              payload |-> IF wt = 2
                                          THEN SubSeq(b, valEnd + 1, last)
                                          ELSE <<>>]>> \o rest.fields]

\* the occurrences of length-delimited field num among parsed fields
Occurrences(fields, num) ==
  SelectSeq(fields, LAMBDA f : f.num = num /\ f.wt = 2)

RECURSIVE Concat(_)
Concat(fs) ==
  IF fs = <<>> THEN <<>> ELSE Head(fs).payload \o Concat(Tail(fs))

\* a bytes/string field: the last occurrence wins, the default is empty
BytesField(fields, num) ==
  LET occ == Occurrences(fields, num) IN
  IF occ = <<>> THEN <<>> ELSE occ[Len(occ)].payload

\* an embedded-message field: the occurrences are merged, which is the
\* parse of their concatenation
MessageField(fields, num) == Concat(Occurrences(fields, num))

\* a length-delimited field on the wire (lengths below 128 in this model)
EncodeField(num, payload) == <<num * 8 + 2, Len(payload)>> \o payload

\* ------------------------------------------------------------------------
\* The two message schemas (rpc_error_payload.proto, exception.proto).
\* The field numbers are fixed by the schema files; every field on the path
\* read by to_exception_detail is field 1 here.
\* ------------------------------------------------------------------------
\* error_info = None
NoneInfo ==
  [isNone |-> TRUE, has_rpc_error |-> FALSE,
   rpc_error |-> [compressed_exception_detail |-> [compressed_data |-> <<>>]]]

\* RpcErrorPayload.FromString(value): the parsed message, or DecodeError
RpcErrorPayload_FromString(value) ==
  LET top == ParseFields(value) IN
  IF ~top.ok THEN [ok |-> FALSE, msg |-> NoneInfo]
  ELSE
    LET rpc == ParseFields(MessageField(top.fields, 1)) IN
    IF ~rpc.ok THEN [ok |-> FALSE, msg |-> NoneInfo]
    ELSE
      LET ced == ParseFields(MessageField(rpc.fields, 1)) IN
      IF ~ced.ok THEN [ok |-> FALSE, msg |-> NoneInfo]
      ELSE [ok |-> TRUE,
            msg |-> [isNone |-> FALSE,
                     has_rpc_error |-> Occurrences(top.fields, 1) # <<>>,
                     rpc_error |->
                       [compressed_exception_detail |->
                          [compressed_data |-> BytesField(ced.fields, 1)]]]]

\* serialized RpcErrorPayload{rpc_error.compressed_exception_detail
\*                            .compressed_data = blob}
RpcErrorPayload_SerializeToString(blob) ==
  EncodeField(1, EncodeField(1, EncodeField(1, blob)))

\* ExceptionDetail is opaque to the program; one string field stands for it
NoDetail == [message |-> <<>>]

\* ExceptionDetail.FromString(data): the parsed message, or DecodeError
ExceptionDetail_FromString(data) ==
  LET top == ParseFields(data) IN
  IF ~top.ok THEN [ok |-> FALSE, msg |-> NoDetail]
  ELSE [ok |-> TRUE, msg |-> [message |-> BytesField(top.fields, 1)]]

\* d.SerializeToString(): fields holding their default are not written
ExceptionDetail_SerializeToString(d) ==
  IF d.message = <<>> THEN <<>> ELSE EncodeField(1, d.message)

\* ------------------------------------------------------------------------
\* zlib: a stream is the two header bytes 0x78 0x9c, the data as one
\* stored block (its length, then the bytes) and a checksum of the data.
\* zlib.decompress raises zlib.error on a bad header, on a stream that
\* ends early and on a checksum mismatch; bytes after the end of the
\* stream are ignored.
\* ------------------------------------------------------------------------
RECURSIVE Sum(_)
Sum(b) == IF b = <<>> THEN 0 ELSE Head(b) + Sum(Tail(b))

Checksum(data) == (1 + Sum(data)) % 251

zlib_compress(data) ==
  <<120, 156, Len(data)>> \o data \o <<Checksum(data)>>

zlib_decompress(b) ==
  IF Len(b) < 4 \/ b[1] # 120 \/ b[2] # 156 \/ Len(b) < 4 + b[3]
  THEN [ok |-> FALSE, data |-> <<>>]
  ELSE
    LET data == SubSeq(b, 4, 3 + b[3]) IN
    IF b[4 + b[3]] # Checksum(data)
    THEN [ok |-> FALSE, data |-> <<>>]
    ELSE [ok |-> TRUE, data |-> data]

\* ------------------------------------------------------------------------
\* Inputs: what the error-producing side can attach to a failed call
\* ------------------------------------------------------------------------
\* ExceptionDetail messages: message "boom", and the all-default message
Boom == [message |-> <<98, 111, 111, 109>>]

Details == {Boom, NoDetail}

\* encode -> compress -> embed, as the error-producing side does
EmbedDetail(d) ==
  RpcErrorPayload_SerializeToString(
    zlib_compress(ExceptionDetail_SerializeToString(d)))

\* a stream cut short by n bytes
Truncated(b, n) == SubSeq(b, 1, Len(b) - n)

\* a stream whose last byte (the checksum) is damaged
Corrupted(b) == [b EXCEPT ![Len(b)] = (b[Len(b)] + 1) % 256]

\* blobs that are not a complete, intact zlib stream
BadBlobs ==
  LET z == zlib_compress(ExceptionDetail_SerializeToString(Boom)) IN
  {Truncated(z, 1), Truncated(z, 3), Corrupted(z)}

\* values that are not a serialized RpcErrorPayload: random bytes (a tag
\* with wire type 7) and a payload cut in the middle of a field
MalformedValues == {<<255, 1, 7>>, Truncated(EmbedDetail(Boom), 2)}

\* an intact stream of bytes that are not a serialized ExceptionDetail
GarbageDetailValue == RpcErrorPayload_SerializeToString(zlib_compress(<<255>>))

\* a payload with every known field unset: only an unknown field 15
UnsetPayloadValue == EncodeField(15, <<1>>)

Values ==
  {EmbedDetail(d) : d \in Details}
    \cup {RpcErrorPayload_SerializeToString(z) : z \in BadBlobs}
    \cup MalformedValues
    \cup {GarbageDetailValue, UnsetPayloadValue, <<>>}

\* values of the handles of two concurrent invocations
ValuesConc == {EmbedDetail(Boom), <<255, 1, 7>>}

\* metadata keys: the fixed key, and a key that differs from it
Keys == {_EXCEPTION_KEY, "__crpc_mse_300713958"}

Entries(vals) == [key : Keys, value : vals]

RECURSIVE SeqsUpTo(_, _)
\* the sequences over S of length at most n
SeqsUpTo(S, n) ==
  IF n = 0 THEN {<<>>}
  ELSE LET shorter == SeqsUpTo(S, n - 1) IN
       shorter \cup {Append(q, x) : q \in shorter, x \in S}

\* e: a grpc.Call (isCall) with its trailing metadata, or a grpc.RpcError
\* that is not a grpc.Call; the latter may carry anything
Handles(vals, n) ==
  [isCall : {TRUE}, metadata : SeqsUpTo(Entries(vals), n)]
    \cup [isCall : {FALSE}, metadata : SeqsUpTo(Entries(vals), 1)]

\* ------------------------------------------------------------------------
\* State
\* ------------------------------------------------------------------------
Inv == {1, 2}          \* invocations of to_exception_detail
HandleId == {1, 2}     \* the objects passed as e

VARIABLES
  handles,      \* heap: HandleId -> the object e refers to
  arg,          \* arg[i]: the handle invocation i was called with
  pc,           \* pc[i]: where invocation i stands
  idx,          \* idx[i]: position of the for loop over trailing_metadata()
  error_info,   \* error_info[i]: the local of that name
  data,         \* data[i]: the result of zlib.decompress
  outcome,      \* outcome[i]: what the invocation returned or raised
  metaCalls,    \* metaCalls[i]: calls of e.trailing_metadata() made
  parsed,       \* parsed[i]: positions whose value went to FromString
  inflated      \* inflated[i]: calls of zlib.decompress made

vars ==
  <<handles, arg, pc, idx, error_info, data, outcome,
    metaCalls, parsed, inflated>>

\* outcomes of an invocation
Absent == [kind |-> "absent", detail |-> NoDetail]
Returned(d) == [kind |-> "ExceptionDetail", detail |-> d]
\* variant: the failure is caught and turned into None
RaisedSwallowed(what) == [kind |-> "absent", detail |-> NoDetail]

\* DecodeError and zlib.error are not caught: they reach the caller
Raised(what) == [kind |-> what, detail |-> NoDetail]
Pending == [kind |-> "pending", detail |-> NoDetail]

\* ------------------------------------------------------------------------
\* The expressions of to_exception_detail
\* ------------------------------------------------------------------------
\* variant: no isinstance test, any object is asked for its metadata
IsCallDuckTyped(e) == TRUE

\* isinstance(e, grpc.Call)
IsCall(e) == e.isCall

\* variant: the key test is dropped, every entry is taken
KeyMatchesAny(metadata) == TRUE

\* variant: the key is compared with its name without the -bin suffix
KeyMatchesNoSuffix(metadata) == metadata.key = "__crpc_mse_300713958"

\* metadata.key == _EXCEPTION_KEY
KeyMatches(metadata) == metadata.key = _EXCEPTION_KEY

\* variant: the first payload found is kept (first match wins)
RetainFirst(previous, payload) ==
  IF previous.isNone THEN payload ELSE previous

\* error_info = <parsed payload>: the assignment replaces what was found
Retain(previous, payload) == payload

\* variant: a message with no field set counts as false
TruthyWhenSet(info) == ~info.isNone /\ info.has_rpc_error

\* if error_info: a message object has no __bool__ and no __len__, so it is
\* true whatever it holds; only None is false
Truthy(info) == ~info.isNone

\* error_info.rpc_error.compressed_exception_detail.compressed_data
CompressedData(info) ==
  info.rpc_error.compressed_exception_detail.compressed_data

\* variant: error_info is a module-level global, one for all invocations
SetGlobal(locals, i, v) == [j \in DOMAIN locals |-> v]

\* error_info is a local: writing it touches the frame of invocation i only
SetLocal(locals, i, v) == [locals EXCEPT ![i] = v]

\* ------------------------------------------------------------------------
\* to_exception_detail, run alone from call to return
\* ------------------------------------------------------------------------
RECURSIVE Scan(_, _, _)
\* the for loop from position k on: the final error_info, or the DecodeError
Scan(md, k, info) ==
  IF k > Len(md) THEN [raised |-> FALSE, info |-> info]
  ELSE IF KeyMatches(md[k])
  THEN LET r == RpcErrorPayload_FromString(md[k].value) IN
       IF r.ok THEN Scan(md, k + 1, Retain(info, r.msg))
       ELSE [raised |-> TRUE, info |-> info]
  ELSE Scan(md, k + 1, info)

to_exception_detail(e) ==
  IF ~IsCall(e) THEN Absent
  ELSE
    LET s == Scan(e.metadata, 1, NoneInfo) IN
    IF s.raised THEN Raised("MalformedPayload")
    ELSE IF ~Truthy(s.info) THEN Absent
    ELSE
      LET z == zlib_decompress(CompressedData(s.info)) IN
      IF ~z.ok THEN Raised("DecompressionFailure")
      ELSE
        LET d == ExceptionDetail_FromString(z.data) IN
        IF ~d.ok THEN Raised("MalformedExceptionDetail")
        ELSE Returned(d.msg)

\* ------------------------------------------------------------------------
\* to_exception_detail, step by step
\* ------------------------------------------------------------------------
Finish(i, result) ==
  /\ pc' = [pc EXCEPT ![i] = "done"]
  /\ outcome' = [outcome EXCEPT ![i] = result]

\* error_info = None; if isinstance(e, grpc.Call): ... e.trailing_metadata()
\* else: return None
Enter(i) ==
  /\ pc[i] = "start"
  /\ error_info' = SetLocal(error_info, i, NoneInfo)
  /\ IF IsCall(handles[arg[i]])
     THEN /\ pc' = [pc EXCEPT ![i] = "loop"]
          /\ idx' = [idx EXCEPT ![i] = 1]
          /\ metaCalls' = [metaCalls EXCEPT ![i] = @ + 1]
          /\ UNCHANGED outcome
     ELSE /\ Finish(i, Absent)
          /\ UNCHANGED <<idx, metaCalls>>
  /\ UNCHANGED <<handles, arg, data, parsed, inflated>>

\* one iteration of the for loop: the key test and, on a match, FromString
ScanEntry(i) ==
  /\ pc[i] = "loop"
  /\ idx[i] <= Len(handles[arg[i]].metadata)
  /\ LET metadata == handles[arg[i]].metadata[idx[i]] IN
     IF KeyMatches(metadata)
     THEN LET r == RpcErrorPayload_FromString(metadata.value) IN
          /\ parsed' = [parsed EXCEPT ![i] = Append(@, idx[i])]
          /\ IF r.ok
             THEN /\ error_info' =
                       SetLocal(error_info, i, Retain(error_info[i], r.msg))
                  /\ idx' = [idx EXCEPT ![i] = @ + 1]
                  /\ UNCHANGED <<pc, outcome>>
             ELSE /\ Finish(i, Raised("MalformedPayload"))
                  /\ UNCHANGED <<error_info, idx>>
     ELSE /\ idx' = [idx EXCEPT ![i] = @ + 1]
          /\ UNCHANGED <<pc, outcome, error_info, parsed>>
  /\ UNCHANGED <<handles, arg, data, metaCalls, inflated>>

\* the for loop is exhausted
ScanEnd(i) ==
  /\ pc[i] = "loop"
  /\ idx[i] > Len(handles[arg[i]].metadata)
  /\ pc' = [pc EXCEPT ![i] = "check"]
  /\ UNCHANGED <<handles, arg, idx, error_info, data, outcome,
                 metaCalls, parsed, inflated>>

\* if error_info: ... else: return None
Check(i) ==
  /\ pc[i] = "check"
  /\ IF Truthy(error_info[i])
     THEN /\ pc' = [pc EXCEPT ![i] = "inflate"]
          /\ UNCHANGED outcome
     ELSE Finish(i, Absent)
  /\ UNCHANGED <<handles, arg, idx, error_info, data,
                 metaCalls, parsed, inflated>>

\* zlib.decompress(error_info.rpc_error.compressed_exception_detail
\*                 .compressed_data)
Inflate(i) ==
  /\ pc[i] = "inflate"
  /\ inflated' = [inflated EXCEPT ![i] = @ + 1]
  /\ LET z == zlib_decompress(CompressedData(error_info[i])) IN
     IF z.ok
     THEN /\ data' = [data EXCEPT ![i] = z.data]
          /\ pc' = [pc EXCEPT ![i] = "detail"]
          /\ UNCHANGED outcome
     ELSE /\ Finish(i, Raised("DecompressionFailure"))
          /\ UNCHANGED data
  /\ UNCHANGED <<handles, arg, idx, error_info, metaCalls, parsed>>

\* exception_detail = ExceptionDetail.FromString(...); return it
Detail(i) ==
  /\ pc[i] = "detail"
  /\ LET d == ExceptionDetail_FromString(data[i]) IN
     IF d.ok
     THEN Finish(i, Returned(d.msg))
     ELSE Finish(i, Raised("MalformedExceptionDetail"))
  /\ UNCHANGED <<handles, arg, idx, error_info, data,
                 metaCalls, parsed, inflated>>

Step(i) ==
  \/ Enter(i)
  \/ ScanEntry(i)
  \/ ScanEnd(i)
  \/ Check(i)
  \/ Inflate(i)
  \/ Detail(i)

Next == \E i \in Inv : Step(i)

Frames(started) ==
  /\ pc = [i \in Inv |-> IF i \in started THEN "start" ELSE "idle"]
  /\ idx = [i \in Inv |-> 0]
  /\ error_info = [i \in Inv |-> NoneInfo]
  /\ data = [i \in Inv |-> <<>>]
  /\ outcome = [i \in Inv |-> Pending]
  /\ metaCalls = [i \in Inv |-> 0]
  /\ parsed = [i \in Inv |-> <<>>]
  /\ inflated = [i \in Inv |-> 0]

Unused == [isCall |-> FALSE, metadata |-> <<>>]

\* one invocation, on any handle
Init ==
  /\ \E e \in Handles(Values, MaxLen) :
       handles = [h \in HandleId |-> IF h = 1 THEN e ELSE Unused]
  /\ arg = [i \in Inv |-> 1]
  /\ Frames({1})

Spec == Init /\ [][Next]_vars

\* two invocations at once, on the same handle or on two handles
InitConc ==
  /\ \E e1, e2 \in Handles(ValuesConc, MaxLenConc), shared \in BOOLEAN :
       /\ handles = [h \in HandleId |->
                       IF h = 1 THEN e1 ELSE IF shared THEN Unused ELSE e2]
       /\ arg = [i \in Inv |-> IF shared THEN 1 ELSE i]
       /\ shared => e2 = e1
  /\ Frames(Inv)

SpecConc == InitConc /\ [][Next]_vars

\* ------------------------------------------------------------------------
\* Vocabulary of the properties
\* ------------------------------------------------------------------------
Handle(i) == handles[arg[i]]

Done(i) == pc[i] = "done"

\* positions of the entries under the fixed key
Matching(md) == {k \in 1..Len(md) : md[k].key = _EXCEPTION_KEY}

Min(S) == CHOOSE k \in S : \A j \in S : k <= j

Max(S) == CHOOSE k \in S : \A j \in S : j <= k

RECURSIVE Ascending(_)
Ascending(S) ==
  IF S = {} THEN <<>> ELSE <<Min(S)>> \o Ascending(S \ {Min(S)})

RECURSIVE KeepFrom(_, _, _)
\* the entries of md at the positions in S, from position k on, in order
KeepFrom(md, S, k) ==
  IF k > Len(md) THEN <<>>
  ELSE (IF k \in S THEN <<md[k]>> ELSE <<>>) \o KeepFrom(md, S, k + 1)

\* e with the entries at the positions in S removed
Without(e, S) ==
  [e EXCEPT !.metadata = KeepFrom(e.metadata, (1..Len(e.metadata)) \ S, 1)]

Failures == {"MalformedPayload", "DecompressionFailure",
             "MalformedExceptionDetail"}

\* ------------------------------------------------------------------------
\* C1: round trip.  When the trailing metadata of a call holds exactly one
\* entry under the fixed key and its value is encode -> compress -> embed
\* of an ExceptionDetail d, the invocation returns d, whatever the entries
\* with other keys around it hold.
\* ------------------------------------------------------------------------
RoundTrip ==
  \A i \in Inv : \A d \in Details :
    LET md == Handle(i).metadata IN
    (/\ Done(i)
     /\ Handle(i).isCall
     /\ Cardinality(Matching(md)) = 1
     /\ md[Min(Matching(md))].value = EmbedDetail(d))
    => outcome[i] = Returned(d)

RoundTripWitness ==
  \E i \in Inv :
    LET md == Handle(i).metadata IN
    /\ Done(i)
    /\ Handle(i).isCall
    /\ Len(md) = 3
    /\ Matching(md) = {2}
    /\ md[2].value = EmbedDetail(Boom)
    /\ md[1].value \in MalformedValues
    /\ outcome[i] = Returned(Boom)

\* ------------------------------------------------------------------------
\* C2, as claimed: with two entries under the fixed key the outcome is the
\* outcome obtained when only the last of them is present, whatever the
\* two values are.
\* ------------------------------------------------------------------------
LastMatchWinsForEveryPair ==
  \A i \in Inv :
    LET md == Handle(i).metadata IN
    (Done(i) /\ Handle(i).isCall /\ Cardinality(Matching(md)) = 2)
    => outcome[i] =
         to_exception_detail(Without(Handle(i), {Min(Matching(md))}))

\* C2, amended: with two entries under the fixed key, the outcome is the
\* outcome obtained when only the last of them is present provided the
\* value of the first parses as an RpcErrorPayload; when it does not, the
\* outcome is the malformed-payload failure whatever the last one holds.
LastMatchWinsWhenFirstParses ==
  \A i \in Inv :
    LET md == Handle(i).metadata
        first == md[Min(Matching(md))].value
    IN
    (Done(i) /\ Handle(i).isCall /\ Cardinality(Matching(md)) = 2)
    => IF first \in MalformedValues
       THEN outcome[i] = Raised("MalformedPayload")
       ELSE outcome[i] =
              to_exception_detail(Without(Handle(i), {Min(Matching(md))}))

LastMatchWinsWitness ==
  \E i \in Inv :
    LET md == Handle(i).metadata IN
    /\ Done(i)
    /\ Handle(i).isCall
    /\ Cardinality(Matching(md)) = 2
    /\ md[Min(Matching(md))].value = EmbedDetail(Boom)
    /\ md[Max(Matching(md))].value = EmbedDetail(NoDetail)
    /\ outcome[i] = Returned(NoDetail)

\* ------------------------------------------------------------------------
\* C3: on an input that is not a grpc.Call the invocation returns absent
\* at once: it goes from its start straight to its end, raises nothing and
\* makes no trailing_metadata() call, no parse and no decompression.
\* ------------------------------------------------------------------------
NotACallIsAbsent ==
  \A i \in Inv :
    ~Handle(i).isCall =>
      /\ pc[i] \in {"idle", "start", "done"}
      /\ metaCalls[i] = 0
      /\ parsed[i] = <<>>
      /\ inflated[i] = 0
      /\ Done(i) => outcome[i] = Absent

NotACallWitness ==
  \E i \in Inv :
    /\ Done(i)
    /\ ~Handle(i).isCall
    /\ Matching(Handle(i).metadata) # {}
    /\ outcome[i] = Absent

\* ------------------------------------------------------------------------
\* C4: on a call whose trailing metadata, of any length, holds no entry
\* under the fixed key the invocation returns absent and raises nothing,
\* whatever the values of the entries.
\* ------------------------------------------------------------------------
NoMatchIsAbsent ==
  \A i \in Inv :
    (Done(i) /\ Handle(i).isCall /\ Matching(Handle(i).metadata) = {})
    => outcome[i] = Absent

NoMatchWitness ==
  \E i \in Inv :
    LET md == Handle(i).metadata IN
    /\ Done(i)
    /\ Handle(i).isCall
    /\ Matching(md) = {}
    /\ Len(md) >= 2
    /\ md[1].value \in MalformedValues
    /\ md[2].value = EmbedDetail(Boom)
    /\ outcome[i] = Absent

\* ------------------------------------------------------------------------
\* C5: when an entry under the fixed key holds bytes that are not a
\* serialized RpcErrorPayload, the invocation raises the malformed-payload
\* failure: it does not return absent and never calls zlib.decompress.
\* ------------------------------------------------------------------------
MalformedPayloadIsRaised ==
  \A i \in Inv :
    LET md == Handle(i).metadata IN
    (/\ Done(i)
     /\ Handle(i).isCall
     /\ \E k \in Matching(md) : md[k].value \in MalformedValues)
    => /\ outcome[i] = [kind |-> "MalformedPayload", detail |-> NoDetail]
       /\ inflated[i] = 0

MalformedPayloadWitness ==
  \E i \in Inv :
    LET md == Handle(i).metadata IN
    /\ Done(i)
    /\ Handle(i).isCall
    /\ Matching(md) = {1}
    /\ md[1].value = <<255, 1, 7>>
    /\ outcome[i].kind = "MalformedPayload"

\* ------------------------------------------------------------------------
\* C6: when the entry under the fixed key parses as an RpcErrorPayload and
\* its compressed_data is a truncated or damaged stream, the invocation
\* raises the decompression failure: it returns neither absent nor an
\* ExceptionDetail.  (With several entries under the key: the last one is
\* such an entry and the earlier ones parse.)
\* ------------------------------------------------------------------------
BadBlobIsRaised ==
  \A i \in Inv :
    LET md == Handle(i).metadata IN
    (/\ Done(i)
     /\ Handle(i).isCall
     /\ Matching(md) # {}
     /\ md[Max(Matching(md))].value
          \in {RpcErrorPayload_SerializeToString(z) : z \in BadBlobs}
     /\ \A k \in Matching(md) : md[k].value \notin MalformedValues)
    => /\ outcome[i] = [kind |-> "DecompressionFailure", detail |-> NoDetail]
       /\ inflated[i] = 1

BadBlobWitness ==
  \E i \in Inv :
    LET md == Handle(i).metadata
        z == zlib_compress(ExceptionDetail_SerializeToString(Boom))
    IN
    /\ Done(i)
    /\ Handle(i).isCall
    /\ Cardinality(Matching(md)) = 1
    /\ md[Max(Matching(md))].value =
         RpcErrorPayload_SerializeToString(Truncated(z, 1))
    /\ outcome[i].kind = "DecompressionFailure"

\* ------------------------------------------------------------------------
\* C7: whenever the trailing metadata of a call holds an entry under the
\* fixed key, the outcome is never absent: it is an ExceptionDetail or one
\* of the three failures.  That includes an empty value and a payload with
\* every field unset.
\* ------------------------------------------------------------------------
MatchIsNeverAbsent ==
  \A i \in Inv :
    (Done(i) /\ Handle(i).isCall /\ Matching(Handle(i).metadata) # {})
    => outcome[i].kind \in {"ExceptionDetail"} \cup Failures

MatchIsNeverAbsentWitness ==
  \E i \in Inv :
    LET md == Handle(i).metadata IN
    /\ Done(i)
    /\ Handle(i).isCall
    /\ Matching(md) # {}
    /\ md[Max(Matching(md))].value \in {<<>>, UnsetPayloadValue}
    /\ inflated[i] = 1
    /\ outcome[i].kind = "DecompressionFailure"

\* ------------------------------------------------------------------------
\* C8: concurrent invocations are independent.  No step of an invocation
\* changes a handle, and under every interleaving of the steps of two
\* invocations, on one handle or on two, each invocation ends with the
\* outcome it has when run alone.
\* ------------------------------------------------------------------------
InvocationsAreIndependent ==
  [][/\ handles' = handles
     /\ \A i \in Inv :
          pc'[i] = "done" => outcome'[i] = to_exception_detail(handles[arg[i]])
    ]_vars

\* both invocations are in flight on the same handle, the first past its
\* decompression while the second is still scanning
InvocationsOverlapWitness ==
  /\ arg[1] = arg[2]
  /\ pc[1] = "detail"
  /\ pc[2] = "loop"
  /\ parsed[2] # <<>>
  /\ error_info[1] = error_info[2]

\* ------------------------------------------------------------------------
\* C9, as claimed: in one invocation the RpcErrorPayload parse is performed
\* at most once, on the value of the last entry under the fixed key; the
\* values of earlier entries under the key are not parsed.
\* ------------------------------------------------------------------------
ParsedAtMostOnceAfterScan ==
  \A i \in Inv :
    LET md == Handle(i).metadata IN
    /\ Len(parsed[i]) <= 1
    /\ parsed[i] # <<>> => parsed[i][1] = Max(Matching(md))

\* the entries the for loop of invocation i has been through
Scanned(i) ==
  IF pc[i] \in {"idle", "start"} \/ ~Handle(i).isCall THEN 0
  ELSE IF pc[i] = "loop" THEN idx[i] - 1
  ELSE IF outcome[i].kind = "MalformedPayload" THEN idx[i]
  ELSE Len(Handle(i).metadata)

\* C9, amended: the parse is performed during the scan, once for every
\* entry under the fixed key that the scan reaches, in iteration order;
\* what is retained is the parsed payload of the last of them, and an
\* entry under the key that fails to parse ends the scan at that entry
\* with the malformed-payload failure.
ParsedEveryMatchDuringScan ==
  \A i \in Inv :
    LET md == Handle(i).metadata
        seen == Matching(md) \cap (1..Scanned(i))
    IN
    /\ parsed[i] = Ascending(seen)
    /\ (seen # {} /\ outcome[i].kind # "MalformedPayload")
         => error_info[i] = RpcErrorPayload_FromString(md[Max(seen)].value).msg
    /\ outcome[i].kind = "MalformedPayload"
         => /\ seen # {}
            /\ md[Max(seen)].value \in MalformedValues
            /\ \A k \in seen \ {Max(seen)} : md[k].value \notin MalformedValues

ParsedEveryMatchWitness ==
  \E i \in Inv :
    LET md == Handle(i).metadata IN
    /\ Done(i)
    /\ Handle(i).isCall
    /\ Cardinality(Matching(md)) >= 2
    /\ Len(parsed[i]) >= 2
    /\ md[parsed[i][1]].value = EmbedDetail(NoDetail)
    /\ outcome[i] = Returned(Boom)

\* ------------------------------------------------------------------------
\* C10: entries whose key differs from the fixed key are irrelevant.  The
\* outcome on a handle is the outcome on the handle with all such entries
\* removed, and no value of such an entry is ever parsed or decompressed:
\* every parsed position holds the fixed key and the payload whose blob is
\* decompressed is the parse of an entry under the fixed key.
\* ------------------------------------------------------------------------
OtherKeysAreIrrelevant ==
  \A i \in Inv :
    LET md == Handle(i).metadata
        others == (1..Len(md)) \ Matching(md)
    IN
    /\ Done(i) => outcome[i] = to_exception_detail(Without(Handle(i), others))
    /\ \A n \in 1..Len(parsed[i]) : parsed[i][n] \in Matching(md)
    /\ inflated[i] > 0 =>
         \E k \in Matching(md) :
           error_info[i] = RpcErrorPayload_FromString(md[k].value).msg

OtherKeysWitness ==
  \E i \in Inv :
    LET md == Handle(i).metadata IN
    /\ Done(i)
    /\ Handle(i).isCall
    /\ Len(md) = 3
    /\ Matching(md) = {2}
    /\ md[2].value = EmbedDetail(NoDetail)
    /\ md[1].value = EmbedDetail(Boom)
    /\ md[3].value \in MalformedValues
    /\ outcome[i] = Returned(NoDetail)

====
